---- MODULE Spec2Model ----
(***************************************************************************)
(* A model of the conversation objects of chatlab / murkrow:               *)
(*   chatlab.Chat          (src/chatlab/conversation.py, asynchronous)     *)
(*   murkrow.Conversation  (src/murkrow/conversation.py, synchronous)      *)
(*   murkrow.Session       (src/murkrow/murkrow.py, synchronous)           *)
(* and of the message constructors of src/chatlab/messaging.py.            *)
(*                                                                         *)
(* Python strings are TLA+ strings; Optional[str] values use None.  The    *)
(* hosted model is the environment: it answers a request with a rate-limit *)
(* error, another error, or a stream of chunks chosen freely from Chunks.  *)
(* A delta carries content or a function_call (name and/or arguments), as  *)
(* the API's chunks do; a finish reason may ride on any chunk.             *)
(***************************************************************************)
EXTENDS Naturals, Sequences, FiniteSets, TLC

VARIABLES
    impl,       \* which class the conversation object is an instance of
    auto,       \* self.auto_continue (murkrow classes)
    messages,   \* self.messages: the history
    registry,   \* names registered in self.function_registry
    task,       \* per coroutine / call: position and locals of submit
    obs,        \* per coroutine / call: what the environment and caller observed
    peer        \* a second Chat object of the same program

vars == <<impl, auto, messages, registry, task, obs, peer>>

-----------------------------------------------------------------------------
(* Bounds *)

MaxChunks == 3     \* chunks read in one top-level submit, over all its streams
MaxCalls == 3      \* model calls (attempts) per top-level submit
MaxBuilt == 2      \* messages built by the constructors and appended

\* the callers of submit: task 1 alone where a conversation is used by one
\* caller, both where submits are put on the loop by the cell magic
Tasks == {1, 2}

RateLimitDelay == 5    \* seconds slept after a rate-limit error

None == "None"

ContentDeltas == {"", "a", " "}
Names == {"f"}
ArgDeltas == {"{", "}"}
Registrable == {"f"}
FinishReasons == {"stop", "function_call", "length", "max_tokens", "content_filter", "weird"}

-----------------------------------------------------------------------------
(* src/chatlab/messaging.py *)

assistant(content) == [role |-> "assistant", content |-> content]

user(content) == [role |-> "user", content |-> content]

system(content) == [role |-> "system", content |-> content]

assistant_function_call_keeps_none(name, arguments) ==
    [role |-> "assistant",
     content |-> None,
     function_call |-> [name |-> name, arguments |-> arguments]]

assistant_function_call(name, arguments) ==
    [role |-> "assistant",
     content |-> None,
     function_call |-> [name |-> name,
                        arguments |-> IF arguments = None THEN "" ELSE arguments]]

function_result(name, content) == [role |-> "function", content |-> content, name |-> name]

tool_result(tool_call_id, content) ==
    [role |-> "tool", content |-> content, tool_call_id |-> tool_call_id]

narrate(content) == system(content)

human(content) == user(content)

ai(content) == assistant(content)

-----------------------------------------------------------------------------
(* Arguments of append / submit: a Python str is Str(s), a Message is itself *)

Str(s) == [str |-> s]

IsStr(x) == DOMAIN x = {"str"}

Items == {Str("q"), system("s")}

\* the argument lists given to append / submit
Inputs == {<<system("s"), Str("q")>>}

\* the histories from which the caller starts an append / submit
StartFrom == {<<>>, <<system("s")>>}

IsPrefix(s, t) == Len(s) <= Len(t) /\ SubSeq(t, 1, Len(s)) = s

Chat_append_unconverted(ms, items) == ms \o items

Chat_append_in_front(ms, items) ==
    [i \in 1..Len(items) |->
        IF IsStr(items[i]) THEN human(items[i].str) ELSE items[i]] \o ms

\* Chat.append: each str becomes human(str), each Message is stored as given
Chat_append(ms, items) ==
    ms \o [i \in 1..Len(items) |->
              IF IsStr(items[i]) THEN human(items[i].str) ELSE items[i]]

\* Chat.submit, the request's message list
Chat_full_messages(ms, items) ==
    ms \o [i \in 1..Len(items) |->
              IF IsStr(items[i]) THEN human(items[i].str) ELSE items[i]]

-----------------------------------------------------------------------------
(* The views: transient accumulators *)

AssistantMessageView == ""

View_append(view, delta) == view \o delta

View_in_progress(view) == view # ""

View_flush(view) == [message |-> assistant(view), view |-> ""]

NoView == [function_name |-> None, function_args |-> None]

AssistantFunctionCallView(name) == [function_name |-> name, function_args |-> ""]

FnView_append(fv, delta) == [fv EXCEPT !.function_args = @ \o delta]

FnView_get_message(fv) == assistant_function_call(fv.function_name, fv.function_args)

\* ChatFunctionCall(...).call(): the function's response (or error) as a message
ChatFunctionCall_call(fv, reg) ==
    function_result(fv.function_name, IF fv.function_name \in reg THEN "r" ELSE "e")

-----------------------------------------------------------------------------
(* Chunks of a stream *)

NoCall == [name |-> None, arguments |-> None]

NoDelta == [content |-> None, function_call |-> NoCall]

Deltas ==
    {NoDelta}
    \cup {[content |-> c, function_call |-> NoCall] : c \in ContentDeltas}
    \cup {[content |-> None, function_call |-> [name |-> n, arguments |-> a]] :
             n \in Names \cup {None}, a \in ArgDeltas \cup {None}}

EmptyChunk == [choices |-> 0, delta |-> NoDelta, finish_reason |-> None]

Chunks ==
    {EmptyChunk}
    \cup {[choices |-> 1, delta |-> d, finish_reason |-> f] :
             d \in Deltas, f \in FinishReasons \cup {None}}

-----------------------------------------------------------------------------
(* State of one call of submit, and what was observed of it *)

Rest == {"idle", "returned", "raised"}

IdleTask ==
    [pc |-> "idle", messages |-> <<>>, auto_continue |-> None, full_messages |-> <<>>,
     assistant_view |-> "", function_view |-> NoView, in_function |-> FALSE,
     error |-> None]

NoObs ==
    [base |-> <<>>, given |-> <<>>, calls |-> 0, retries |-> 0, rounds |-> 0, chunks |-> 0,
     attempts |-> 0, streak |-> 0, slept |-> 0,
     log |-> <<>>, sent |-> <<>>, recv |-> "", flush |-> <<>>,
     streamed |-> "", split |-> "none",
     name |-> None, args |-> "", args_first |-> FALSE, renamed |-> FALSE, call |-> <<>>,
     finish |-> None, ended |-> FALSE, printed |-> None, ac |-> None,
     seen |-> None, refused |-> <<>>]

\* a stream begins: nothing of it has been seen yet
ObserveStreamStart(o) ==
    [o EXCEPT !.recv = "", !.flush = <<>>, !.streamed = "", !.split = "none",
              !.name = None, !.args = "", !.args_first = FALSE, !.renamed = FALSE,
              !.call = <<>>, !.finish = None, !.ended = FALSE, !.printed = None,
              !.seen = None]

\* the environment's own record of one chunk: content deltas since the last
\* flush, the latest function name and the argument deltas that followed it,
\* the latest finish reason
ObserveChunk(o, c) ==
    LET d == c.delta
        fc == d.function_call
        n1 == IF fc.name # None THEN fc.name ELSE o.name
        a0 == IF fc.name # None THEN "" ELSE o.args
        text == d.content # None /\ d.content # ""
    IN [o EXCEPT
          !.recv = IF d.content # None THEN @ \o d.content ELSE @,
          !.streamed = IF d.content # None THEN @ \o d.content ELSE @,
          !.split = IF text /\ @ = "none" THEN "text"
                    ELSE IF fc.name # None /\ @ = "text" THEN "cut"
                    ELSE IF text /\ @ = "cut" THEN "split"
                    ELSE @,
          !.renamed = IF fc.name # None THEN o.name # None /\ o.args # "" ELSE @,
          !.name = n1,
          !.args = IF fc.arguments # None /\ n1 # None THEN a0 \o fc.arguments ELSE a0,
          !.args_first = fc.arguments # None /\ n1 = None,
          !.flush = <<>>,
          !.seen = IF c.finish_reason # None THEN c.finish_reason ELSE @,
          !.chunks = @ + 1]

\* an assistant text message was appended: what it holds, what had been
\* received since the previous flush, and what the accumulator holds now
ObserveFlush(o, appended, view) ==
    IF appended = <<>> THEN o
    ELSE [o EXCEPT !.flush = <<[got |-> appended[1].content, want |-> o.recv, left |-> view]>>,
                   !.recv = "",
                   !.log = @ \o <<"text">>]

-----------------------------------------------------------------------------
(* chatlab.Chat *)

Chat_content_delta_last_only(av, content) == content

\* Chat.__process_stream on delta.content
Chat_content_delta(av, content) == View_append(av, content)

Chat_name_delta_keeps_arguments(fv, name) ==
    IF fv = NoView THEN AssistantFunctionCallView(name)
    ELSE [fv EXCEPT !.function_name = name]

\* Chat.__process_stream on function_call.name: a new function view
Chat_name_delta(fv, name) == AssistantFunctionCallView(name)

\* Chat.__process_stream on function_call.arguments
Chat_arguments_delta(fv, arguments) ==
    IF fv = NoView
    THEN [function_view |-> fv, raised |-> "ValueError"]
    ELSE [function_view |-> FnView_append(fv, arguments), raised |-> None]

Chat_finish_reason_stop_only(choice_finish_reason) ==
    IF choice_finish_reason = "stop" THEN choice_finish_reason ELSE None

\* Chat.__process_stream on choice.finish_reason: the reason the loop is left
\* with, None to go on reading
Chat_finish_reason(choice_finish_reason) == choice_finish_reason

\* Chat.__process_stream, the body of the loop for one chunk
Chat_process_chunk(av, fv, c) ==
    LET d == c.delta
        fc == d.function_call
        in_call == c.choices # 0 /\ d.content = None /\ fc # NoCall
        named == in_call /\ fc.name # None
        flushed == named /\ View_in_progress(av)
        av1 == IF c.choices # 0 /\ d.content # None THEN Chat_content_delta(av, d.content)
               ELSE IF flushed THEN View_flush(av).view
               ELSE av
        fv1 == IF named THEN Chat_name_delta(fv, fc.name) ELSE fv
        argued == in_call /\ fc.arguments # None
        raised == argued /\ Chat_arguments_delta(fv1, fc.arguments).raised # None
        fv2 == IF argued THEN Chat_arguments_delta(fv1, fc.arguments).function_view ELSE fv1
    IN [assistant_view |-> av1,
        function_view |-> fv2,
        appended |-> IF flushed THEN <<View_flush(av).message>> ELSE <<>>,
        raised |-> IF raised THEN "ValueError" ELSE None,
        finish_reason |-> IF c.choices = 0 \/ raised THEN None
                          ELSE Chat_finish_reason(c.finish_reason)]

Chat_wrap_up_skipped(av) == [appended |-> <<>>, assistant_view |-> av]

Chat_wrap_up_drops(av) == [appended |-> <<>>, assistant_view |-> ""]

\* Chat.__process_stream after the loop: wrap up the assistant's message
Chat_wrap_up(av) ==
    IF View_in_progress(av)
    THEN [appended |-> <<View_flush(av).message>>, assistant_view |-> View_flush(av).view]
    ELSE [appended |-> <<>>, assistant_view |-> av]

Chat_function_call_unanswered(ms, fv, reg) ==
    [messages |-> Chat_append(ms, <<FnView_get_message(fv)>>),
     log |-> <<"fc", "exec", "result">>,
     resubmit |-> <<>>]

Chat_function_call_result_first(ms, fv, reg) ==
    [messages |-> Chat_append(Chat_append(ms, <<ChatFunctionCall_call(fv, reg)>>),
                              <<FnView_get_message(fv)>>),
     log |-> <<"fc", "exec", "result">>,
     resubmit |-> <<>>]

\* Chat.submit on finish_reason == "function_call": record the call, make it,
\* record its result, and the messages handed to the recursive submit
Chat_function_call(ms, fv, reg) ==
    [messages |-> Chat_append(Chat_append(ms, <<FnView_get_message(fv)>>),
                              <<ChatFunctionCall_call(fv, reg)>>),
     log |-> <<"fc", "exec", "result">>,
     resubmit |-> <<>>]

\* Chat.submit from its entry to the await of the model call
Chat_enter(tk, o, ms, items) ==
    [task |-> [tk EXCEPT !.pc = "create",
                         !.messages = items,
                         !.full_messages = Chat_full_messages(ms, items),
                         !.assistant_view = "",
                         !.function_view = NoView],
     obs |-> [o EXCEPT !.calls = @ + 1,
                       !.attempts = @ + 1,
                       !.log = @ \o <<"call">>,
                       !.sent = Chat_full_messages(ms, items)]]

ChatSubmit_appends_first(t, items) ==
    /\ impl = "Chat"
    /\ task[t].pc \in Rest
    /\ messages \in StartFrom
    /\ LET e == Chat_enter(IdleTask, [NoObs EXCEPT !.base = messages, !.given = items],
                           messages, items)
       IN /\ task' = [task EXCEPT ![t] = e.task]
          /\ obs' = [obs EXCEPT ![t] = e.obs]
    /\ messages' = Chat_append(messages, items)
    /\ UNCHANGED <<impl, auto, peer, registry>>

\* Chat.submit / Chat.__call__, called by the user or scheduled on the loop
ChatSubmit(t, items) ==
    /\ impl = "Chat"
    /\ task[t].pc \in Rest
    /\ messages \in StartFrom
    /\ LET e == Chat_enter(IdleTask, [NoObs EXCEPT !.base = messages, !.given = items],
                           messages, items)
       IN /\ task' = [task EXCEPT ![t] = e.task]
          /\ obs' = [obs EXCEPT ![t] = e.obs]
    /\ UNCHANGED <<impl, auto, peer, messages, registry>>

\* the model call raises openai.RateLimitError: log, then await asyncio.sleep(5)
ChatRateLimited(t) ==
    /\ impl = "Chat"
    /\ task[t].pc = "create"
    /\ obs[t].calls < MaxCalls
    /\ task' = [task EXCEPT ![t].pc = "sleep"]
    /\ obs' = [obs EXCEPT ![t].log = @ \o <<"rate_limit">>, ![t].retries = @ + 1,
                          ![t].streak = @ + 1, ![t].refused = obs[t].sent]
    /\ UNCHANGED <<impl, auto, peer, messages, registry>>

Chat_on_rate_limit_sleeps_on(tk, o, ms) == [task |-> tk, obs |-> o]

Chat_on_rate_limit_resends_all(tk, o, ms) ==
    Chat_enter(tk, [o EXCEPT !.slept = @ + RateLimitDelay], ms, tk.full_messages)

Chat_on_rate_limit_once(tk, o, ms) ==
    IF o.attempts >= 2
    THEN [task |-> [tk EXCEPT !.pc = "returned"], obs |-> o]
    ELSE Chat_enter(tk, [o EXCEPT !.slept = @ + RateLimitDelay], ms, tk.messages)

\* Chat.submit's handler of RateLimitError once the sleep is over:
\* await self.submit(*messages, ...) with the same messages
Chat_on_rate_limit(tk, o, ms) ==
    Chat_enter(tk, [o EXCEPT !.slept = @ + RateLimitDelay], ms, tk.messages)

\* the sleep of task t is over
ChatRetry(t) ==
    /\ impl = "Chat"
    /\ task[t].pc = "sleep"
    /\ LET e == Chat_on_rate_limit(task[t], obs[t], messages)
       IN /\ task' = [task EXCEPT ![t] = e.task]
          /\ obs' = [obs EXCEPT ![t] = e.obs]
    /\ UNCHANGED <<impl, auto, peer, messages, registry>>

\* the model call raises any other error: it propagates out of submit
ChatCreateFails(t) ==
    /\ impl = "Chat"
    /\ task[t].pc = "create"
    /\ task' = [task EXCEPT ![t].pc = "raised", ![t].error = "APIError"]
    /\ obs' = [obs EXCEPT ![t].log = @ \o <<"raise">>]
    /\ UNCHANGED <<impl, auto, peer, messages, registry>>

\* the model call returns a stream: self.append(*messages), then the stream is read
ChatCreateReturns(t) ==
    /\ impl = "Chat"
    /\ task[t].pc = "create"
    /\ messages' = Chat_append(messages, task[t].messages)
    /\ task' = [task EXCEPT ![t].pc = "stream"]
    /\ obs' = [obs EXCEPT ![t] = ObserveStreamStart([@ EXCEPT !.log = @ \o <<"append">>])]
    /\ UNCHANGED <<impl, auto, peer, registry>>

Chat_no_finish_reason_returns(finish_reason) == None

\* Chat.__process_stream: no finish reason provided
Chat_no_finish_reason(finish_reason) ==
    IF finish_reason = None THEN "ValueError" ELSE None

Chat_other_finish_raises(finish_reason) ==
    IF finish_reason = "stop"
    THEN [then |-> "returned", error |-> None, printed |-> None]
    ELSE [then |-> "raised", error |-> "ValueError", printed |-> None]

\* Chat.submit on the finish reasons other than "function_call": 'stop'
\* returns, the others print a line in the output and return
Chat_other_finish(finish_reason) ==
    [then |-> "returned",
     error |-> None,
     printed |-> IF finish_reason = "stop" THEN None
                 ELSE IF finish_reason \in {"max_tokens", "length"}
                 THEN "max tokens or overall length is too high..."
                 ELSE IF finish_reason = "content_filter"
                 THEN "Content omitted due to OpenAI content filters..."
                 ELSE "UNKNOWN FINISH REASON"]

Chat_incomplete_function_call_passes(function_call_request) == None

\* Chat.submit: 'function_call' was the finish reason without a function call
Chat_incomplete_function_call(function_call_request) ==
    IF function_call_request = NoView THEN "ValueError" ELSE None

Chat_after_stream_wraps_last(ms, av, fv, finish_reason, reg) ==
    LET w == Chat_wrap_up(av)
        m1 == Chat_append(ms, w.appended)
        out == [then |-> "returned", error |-> None, messages |-> m1,
                flushed |-> w.appended, assistant_view |-> w.assistant_view,
                log |-> <<"return">>, call |-> <<>>, resubmit |-> <<>>, printed |-> None]
    IN IF Chat_no_finish_reason(finish_reason) # None
       THEN [out EXCEPT !.then = "raised", !.error = Chat_no_finish_reason(finish_reason),
                        !.log = <<"raise">>]
       ELSE IF finish_reason = "function_call"
       THEN IF Chat_incomplete_function_call(fv) # None
            THEN [out EXCEPT !.then = "raised", !.error = Chat_incomplete_function_call(fv),
                             !.log = <<"raise">>]
            ELSE LET f == Chat_function_call(ms, fv, reg)
                 IN [out EXCEPT !.then = "resubmit",
                                !.messages = Chat_append(f.messages, w.appended),
                                !.log = f.log, !.call = <<FnView_get_message(fv)>>,
                                !.resubmit = f.resubmit]
       ELSE LET r == Chat_other_finish(finish_reason)
            IN [out EXCEPT !.then = r.then, !.error = r.error, !.printed = r.printed,
                           !.log = <<IF r.then = "returned" THEN "return" ELSE "raise">>]

\* Chat.__process_stream after the loop, then the rest of Chat.submit
Chat_after_stream(ms, av, fv, finish_reason, reg) ==
    LET w == Chat_wrap_up(av)
        m1 == Chat_append(ms, w.appended)
        out == [then |-> "returned", error |-> None, messages |-> m1,
                flushed |-> w.appended, assistant_view |-> w.assistant_view,
                log |-> <<"return">>, call |-> <<>>, resubmit |-> <<>>, printed |-> None]
    IN IF Chat_no_finish_reason(finish_reason) # None
       THEN [out EXCEPT !.then = "raised", !.error = Chat_no_finish_reason(finish_reason),
                        !.log = <<"raise">>]
       ELSE IF finish_reason = "function_call"
       THEN IF Chat_incomplete_function_call(fv) # None
            THEN [out EXCEPT !.then = "raised", !.error = Chat_incomplete_function_call(fv),
                             !.log = <<"raise">>]
            ELSE LET f == Chat_function_call(m1, fv, reg)
                 IN [out EXCEPT !.then = "resubmit", !.messages = f.messages,
                                !.log = f.log, !.call = <<FnView_get_message(fv)>>,
                                !.resubmit = f.resubmit]
       ELSE LET r == Chat_other_finish(finish_reason)
            IN [out EXCEPT !.then = r.then, !.error = r.error, !.printed = r.printed,
                           !.log = <<IF r.then = "returned" THEN "return" ELSE "raise">>]

\* the stream's end, or its first finish reason, reached by task t
ChatFinish(t, tk, o, ms, finish_reason, ended) ==
    LET a == Chat_after_stream(ms, tk.assistant_view, tk.function_view, finish_reason, registry)
        o1 == ObserveFlush(o, a.flushed, a.assistant_view)
        o2 == [o1 EXCEPT !.finish = finish_reason, !.ended = ended, !.call = a.call,
                         !.printed = a.printed,
                         !.attempts = IF a.then = "resubmit" THEN 0 ELSE @,
                         !.streak = IF a.then = "resubmit" THEN 0 ELSE @,
                         !.refused = IF a.then = "resubmit" THEN <<>> ELSE @,
                         !.slept = IF a.then = "resubmit" THEN 0 ELSE @,
                         !.log = @ \o a.log,
                         !.rounds = IF a.then = "resubmit" THEN @ + 1 ELSE @]
        tk1 == [tk EXCEPT !.assistant_view = a.assistant_view]
        e == Chat_enter(tk1, o2, a.messages, a.resubmit)
    IN /\ a.then = "resubmit" => o.calls < MaxCalls
       /\ messages' = a.messages
       /\ task' = [task EXCEPT ![t] =
                     IF a.then = "resubmit" THEN e.task
                     ELSE [tk1 EXCEPT !.pc = a.then, !.error = a.error]]
       /\ obs' = [obs EXCEPT ![t] = IF a.then = "resubmit" THEN e.obs ELSE o2]

\* the stream yields one chunk to task t
ChatChunk(t, c) ==
    /\ impl = "Chat"
    /\ task[t].pc = "stream"
    /\ obs[t].chunks < MaxChunks
    /\ LET tk == task[t]
           r == Chat_process_chunk(tk.assistant_view, tk.function_view, c)
           o1 == ObserveFlush(ObserveChunk(obs[t], c), r.appended, r.assistant_view)
           m1 == Chat_append(messages, r.appended)
           tk1 == [tk EXCEPT !.assistant_view = r.assistant_view,
                             !.function_view = r.function_view]
       IN IF r.raised # None
          THEN /\ messages' = m1
               /\ task' = [task EXCEPT ![t] = [tk1 EXCEPT !.pc = "raised", !.error = r.raised]]
               /\ obs' = [obs EXCEPT ![t] = [o1 EXCEPT !.log = @ \o <<"raise">>]]
          ELSE IF r.finish_reason = None
          THEN /\ messages' = m1
               /\ task' = [task EXCEPT ![t] = tk1]
               /\ obs' = [obs EXCEPT ![t] = o1]
          ELSE ChatFinish(t, tk1, o1, m1, r.finish_reason, FALSE)
    /\ UNCHANGED <<impl, auto, peer, registry>>

\* the stream ends without having given a finish reason
ChatStreamEnds(t) ==
    /\ impl = "Chat"
    /\ task[t].pc = "stream"
    /\ ChatFinish(t, task[t], [obs[t] EXCEPT !.flush = <<>>], messages, None, TRUE)
    /\ UNCHANGED <<impl, auto, peer, registry>>

-----------------------------------------------------------------------------
(* murkrow.Conversation and murkrow.Session: synchronous, one caller *)

RECURSIVE Spaces(_)
Spaces(k) == IF k = 0 THEN "" ELSE " " \o Spaces(k - 1)

\* s.strip() == ""
IsBlank(s) == \E k \in 0..Len(s) : s = Spaces(k)

\* json.loads(function_args) succeeds
ValidJson(s) == s = "{}"

\* submit / chat from its entry to the model call: the messages are appended
\* first and the request carries the history
Murkrow_enter(tk, o, ms, items, ac) ==
    [messages |-> Chat_append(ms, items),
     task |-> [tk EXCEPT !.pc = "create",
                         !.messages = items,
                         !.auto_continue = ac,
                         !.full_messages = Chat_append(ms, items),
                         !.assistant_view = "",
                         !.function_view = NoView,
                         !.in_function = FALSE],
     obs |-> [o EXCEPT !.calls = @ + 1,
                       !.attempts = @ + 1,
                       !.log = @ \o <<"append", "call">>,
                       !.sent = Chat_append(ms, items)]]

\* Conversation.submit / Session.chat called by the user
MurkrowSubmit(t, items, ac) ==
    /\ impl \in {"Conversation", "Session"}
    /\ task[t].pc \in Rest
    /\ messages \in StartFrom
    /\ LET e == Murkrow_enter(IdleTask,
                              [NoObs EXCEPT !.base = messages, !.given = items, !.ac = ac],
                              messages, items, ac)
       IN /\ messages' = e.messages
          /\ task' = [task EXCEPT ![t] = e.task]
          /\ obs' = [obs EXCEPT ![t] = e.obs]
    /\ UNCHANGED <<impl, auto, peer, registry>>

\* openai.ChatCompletion.create raises: the error propagates
MurkrowCreateFails(t) ==
    /\ impl \in {"Conversation", "Session"}
    /\ task[t].pc = "create"
    /\ task' = [task EXCEPT ![t].pc = "raised", ![t].error = "APIError"]
    /\ obs' = [obs EXCEPT ![t].log = @ \o <<"raise">>]
    /\ UNCHANGED <<impl, auto, peer, messages, registry>>

\* openai.ChatCompletion.create returns the stream
MurkrowCreateReturns(t) ==
    /\ impl \in {"Conversation", "Session"}
    /\ task[t].pc = "create"
    /\ task' = [task EXCEPT ![t].pc = "stream"]
    /\ obs' = [obs EXCEPT ![t] = ObserveStreamStart(@)]
    /\ UNCHANGED <<impl, auto, peer, messages, registry>>

Conv_arguments_delta_lenient(cf, arguments) ==
    IF cf = NoView
    THEN [function_view |-> cf, raised |-> None]
    ELSE [function_view |-> FnView_append(cf, arguments), raised |-> None]

\* Conversation.submit on function_call['arguments']
Conv_arguments_delta(cf, arguments) ==
    IF cf = NoView
    THEN [function_view |-> cf, raised |-> "ValueError"]
    ELSE [function_view |-> FnView_append(cf, arguments), raised |-> None]

\* Conversation.submit, the body of the loop for one chunk
Conv_process_chunk(mark, cf, c) ==
    LET d == c.delta
        fc == d.function_call
        in_call == d.content = None /\ fc # NoCall
        flushed == in_call /\ cf = NoView /\ ~IsBlank(mark)
        mark1 == IF d.content # None THEN View_append(mark, d.content)
                 ELSE IF flushed THEN ""
                 ELSE mark
        cf1 == IF in_call /\ fc.name # None THEN AssistantFunctionCallView(fc.name) ELSE cf
        argued == in_call /\ fc.arguments # None
        raised == argued /\ Conv_arguments_delta(cf1, fc.arguments).raised # None
        cf2 == IF argued THEN Conv_arguments_delta(cf1, fc.arguments).function_view ELSE cf1
    IN IF c.choices = 0
       THEN [assistant_view |-> mark, function_view |-> cf, appended |-> <<>>,
             raised |-> "IndexError", finish_reason |-> None]
       ELSE [assistant_view |-> mark1,
             function_view |-> cf2,
             appended |-> IF flushed THEN <<assistant(mark)>> ELSE <<>>,
             raised |-> IF raised THEN "ValueError" ELSE None,
             finish_reason |-> IF raised THEN None ELSE c.finish_reason]

\* Conversation.submit after the loop
Conv_after_stream(ms, mark, cf, finish_reason, reg, ac, self_auto) ==
    LET out == [then |-> "returned", error |-> None, messages |-> ms, flushed |-> <<>>,
                assistant_view |-> mark, log |-> <<"return">>, call |-> <<>>]
        continuing == IF ac # None THEN ac = "True" ELSE self_auto
    IN IF finish_reason = "function_call"
       THEN IF cf = NoView
            THEN [out EXCEPT !.then = "raised", !.error = "ValueError", !.log = <<"raise">>]
            ELSE [out EXCEPT
                    !.then = IF continuing THEN "resubmit" ELSE "returned",
                    !.messages = Chat_append(Chat_append(ms, <<FnView_get_message(cf)>>),
                                             <<ChatFunctionCall_call(cf, reg)>>),
                    !.log = <<"fc", "exec", "result">>
                            \o (IF continuing THEN <<>> ELSE <<"return">>),
                    !.call = <<FnView_get_message(cf)>>]
       ELSE IF finish_reason \in {"stop", "max_tokens"}
       THEN [out EXCEPT !.messages = ms \o <<assistant(mark)>>,
                        !.flushed = <<assistant(mark)>>]
       ELSE out

\* the stream's end, or its first finish reason, in Conversation.submit
ConvFinish(t, tk, o, ms, finish_reason, ended) ==
    LET a == Conv_after_stream(ms, tk.assistant_view, tk.function_view, finish_reason,
                               registry, tk.auto_continue, auto)
        o1 == ObserveFlush(o, a.flushed, a.assistant_view)
        o2 == [o1 EXCEPT !.finish = finish_reason, !.ended = ended, !.call = a.call,
                         !.attempts = IF a.then = "resubmit" THEN 0 ELSE @,
                         !.log = @ \o a.log,
                         !.rounds = IF a.call # <<>> THEN @ + 1 ELSE @]
        \* self.chat(): submit with no message and no auto_continue argument
        e == Murkrow_enter(tk, o2, a.messages, <<>>, None)
    IN /\ a.then = "resubmit" => o.calls < MaxCalls
       /\ messages' = a.messages
       /\ task' = [task EXCEPT ![t] =
                     IF a.then = "resubmit" THEN e.task
                     ELSE [tk EXCEPT !.pc = a.then, !.error = a.error]]
       /\ obs' = [obs EXCEPT ![t] = IF a.then = "resubmit" THEN e.obs ELSE o2]

\* the stream yields one chunk to Conversation.submit
ConvChunk(t, c) ==
    /\ impl = "Conversation"
    /\ task[t].pc = "stream"
    /\ obs[t].chunks < MaxChunks
    /\ LET tk == task[t]
           r == Conv_process_chunk(tk.assistant_view, tk.function_view, c)
           o1 == ObserveFlush(ObserveChunk(obs[t], c), r.appended, r.assistant_view)
           m1 == Chat_append(messages, r.appended)
           tk1 == [tk EXCEPT !.assistant_view = r.assistant_view,
                             !.function_view = r.function_view]
       IN IF r.raised # None
          THEN /\ messages' = m1
               /\ task' = [task EXCEPT ![t] = [tk1 EXCEPT !.pc = "raised", !.error = r.raised]]
               /\ obs' = [obs EXCEPT ![t] = [o1 EXCEPT !.log = @ \o <<"raise">>]]
          ELSE IF r.finish_reason = None
          THEN /\ messages' = m1
               /\ task' = [task EXCEPT ![t] = tk1]
               /\ obs' = [obs EXCEPT ![t] = o1]
          ELSE ConvFinish(t, tk1, o1, m1, r.finish_reason, FALSE)
    /\ UNCHANGED <<impl, auto, peer, registry>>

\* the stream ends without having given a finish reason
ConvStreamEnds(t) ==
    /\ impl = "Conversation"
    /\ task[t].pc = "stream"
    /\ ConvFinish(t, task[t], [obs[t] EXCEPT !.flush = <<>>], messages, None, TRUE)
    /\ UNCHANGED <<impl, auto, peer, registry>>

\* Session.chat, the body of the loop for one chunk; the loop goes on after a
\* finish reason, and a 'function_call' finish runs the function inside it
Session_process_chunk(mark, cfd, in_function, c, reg) ==
    LET d == c.delta
        fc == d.function_call
        in_call == d.content = None /\ fc # NoCall
        flushed == in_call /\ ~in_function /\ ~IsBlank(mark)
        mark1 == IF d.content # None THEN View_append(mark, d.content)
                 ELSE IF flushed THEN ""
                 ELSE mark
        inf1 == in_function \/ in_call
        cfd1 == IF in_call /\ fc.name # None THEN AssistantFunctionCallView(fc.name) ELSE cfd
        argued == in_call /\ fc.arguments # None
        raised1 == argued /\ cfd1 = NoView
        cfd2 == IF argued /\ ~raised1 THEN FnView_append(cfd1, fc.arguments) ELSE cfd1
        text == IF flushed THEN <<assistant(mark)>> ELSE <<>>
        calling == c.finish_reason = "function_call"
        raised2 == calling /\ cfd2 = NoView
        runs == /\ calling /\ ~raised2
                /\ cfd2.function_name # "" /\ cfd2.function_args # ""
                /\ cfd2.function_name \in reg
        call == assistant_function_call(cfd2.function_name, cfd2.function_args)
        result == function_result(cfd2.function_name, "r")
        wraps == ~calling /\ c.finish_reason # None /\ ~inf1
        out == [assistant_view |-> mark1, function_view |-> cfd2, in_function |-> inf1,
                text |-> text, appended |-> <<>>, call |-> <<>>, log |-> <<>>,
                raised |-> None, finish_reason |-> c.finish_reason]
    IN IF c.choices = 0
       THEN [out EXCEPT !.assistant_view = mark, !.function_view = cfd,
                        !.in_function = in_function, !.text = <<>>,
                        !.raised = "IndexError", !.finish_reason = None]
       ELSE IF raised1 \/ raised2
       THEN [out EXCEPT !.raised = "ValueError", !.finish_reason = None]
       ELSE IF runs /\ ~ValidJson(cfd2.function_args)
       THEN [out EXCEPT !.appended = <<call>>, !.call = <<call>>, !.log = <<"fc">>,
                        !.raised = "JSONDecodeError"]
       ELSE IF runs
       THEN [out EXCEPT !.appended = <<call, result>>, !.call = <<call>>,
                        !.log = <<"fc", "exec", "result">>,
                        !.function_view = NoView, !.in_function = FALSE]
       ELSE IF wraps
       THEN [out EXCEPT !.appended = <<assistant(mark1)>>]
       ELSE out

\* Session.chat after the loop: whether to continue from a function result
Session_after_stream(ms, ac, self_auto) ==
    LET continuing == IF ac # None THEN ac = "True" ELSE self_auto
    IN IF ~continuing THEN "returned"
       ELSE IF ms = <<>> THEN "raised"
       ELSE IF ms[Len(ms)].role = "function" THEN "resubmit"
       ELSE "returned"

\* the stream yields one chunk to Session.chat
SessionChunk(t, c) ==
    /\ impl = "Session"
    /\ task[t].pc = "stream"
    /\ obs[t].chunks < MaxChunks
    /\ LET tk == task[t]
           r == Session_process_chunk(tk.assistant_view, tk.function_view, tk.in_function,
                                      c, registry)
           o1 == ObserveFlush(ObserveChunk(obs[t], c), r.text, r.assistant_view)
           o2 == IF r.call = <<>> /\ r.appended # <<>>
                 THEN ObserveFlush(o1, r.appended, r.assistant_view)
                 ELSE [o1 EXCEPT !.log = @ \o r.log,
                                 !.call = IF r.call # <<>> THEN r.call ELSE @,
                                 !.rounds = IF r.call # <<>> THEN @ + 1 ELSE @]
           o3 == [o2 EXCEPT !.finish = IF r.finish_reason # None THEN r.finish_reason ELSE @,
                            !.log = IF r.raised # None THEN @ \o <<"raise">> ELSE @]
       IN /\ messages' = messages \o r.text \o r.appended
          /\ task' = [task EXCEPT ![t] =
                        [tk EXCEPT !.assistant_view = r.assistant_view,
                                   !.function_view = r.function_view,
                                   !.in_function = r.in_function,
                                   !.pc = IF r.raised # None THEN "raised" ELSE @,
                                   !.error = r.raised]]
          /\ obs' = [obs EXCEPT ![t] = o3]
    /\ UNCHANGED <<impl, auto, peer, registry>>

\* the stream ends: Session.chat leaves the loop
SessionStreamEnds(t) ==
    /\ impl = "Session"
    /\ task[t].pc = "stream"
    /\ LET tk == task[t]
           then == Session_after_stream(messages, tk.auto_continue, auto)
           o1 == [obs[t] EXCEPT !.ended = TRUE, !.flush = <<>>]
           e == Murkrow_enter(tk, [o1 EXCEPT !.attempts = 0], messages, <<>>, None)
       IN /\ then = "resubmit" => obs[t].calls < MaxCalls
          /\ messages' = messages
          /\ task' = [task EXCEPT ![t] =
                        IF then = "resubmit" THEN e.task
                        ELSE [tk EXCEPT !.pc = then,
                                        !.error = IF then = "raised" THEN "IndexError"
                                                  ELSE None]]
          /\ obs' = [obs EXCEPT ![t] =
                        IF then = "resubmit" THEN e.obs
                        ELSE [o1 EXCEPT !.log = @ \o <<IF then = "raised" THEN "raise"
                                                       ELSE "return">>]]
    /\ UNCHANGED <<impl, auto, peer, registry>>

-----------------------------------------------------------------------------
(* Construction; a second Chat object *)

Chat_init_function_registry_shared(function_registry) ==
    IF function_registry = None THEN "first" ELSE function_registry

\* Chat.__init__: without a registry from the caller the chat gets a new
\* FunctionRegistry of its own, else it refers to the caller's
Chat_init_function_registry(function_registry) ==
    IF function_registry = None THEN "own" ELSE function_registry

\* Chat.__init__ of the second object: a new list of messages, the initial
\* context appended to it, and its registry; where the caller supplies a
\* registry it is that of the first object
Chat_init(initial_context, function_registry) ==
    [messages |-> Chat_append(<<>>, initial_context),
     function_registry |-> Chat_init_function_registry(function_registry),
     names |-> {},
     supplied |-> function_registry]

\* the names registered in the second object's self.function_registry
PeerRegistry == IF peer.function_registry = "own" THEN peer.names ELSE registry

\* append(*messages) on the second object
PeerAppend(items) ==
    /\ peer.messages \in StartFrom
    /\ peer' = [peer EXCEPT !.messages = Chat_append(@, items)]
    /\ UNCHANGED <<impl, auto, messages, registry, task, obs>>

\* clear_history() on the second object
PeerClearHistory ==
    /\ peer' = [peer EXCEPT !.messages = <<>>]
    /\ UNCHANGED <<impl, auto, messages, registry, task, obs>>

\* register(function) on the second object: its registry gains the name
PeerRegister(fn) ==
    /\ fn \notin PeerRegistry
    /\ IF peer.function_registry = "own"
       THEN peer' = [peer EXCEPT !.names = @ \cup {fn}] /\ registry' = registry
       ELSE registry' = registry \cup {fn} /\ peer' = peer
    /\ UNCHANGED <<impl, auto, messages, task, obs>>

-----------------------------------------------------------------------------
(* Operations that do not call the model *)

\* append(*messages)
AppendOp(items) ==
    /\ messages \in StartFrom
    /\ messages' = Chat_append(messages, items)
    /\ UNCHANGED <<impl, auto, peer, registry, task, obs>>

\* Chat.get_history()
Chat_get_history(ms) == ms

ClearHistory_keeps_system ==
    /\ impl = "Chat"
    /\ messages' = SelectSeq(messages, LAMBDA m : m.role = "system")
    /\ UNCHANGED <<impl, auto, peer, registry, task, obs>>

\* Chat.clear_history()
ClearHistory ==
    /\ impl = "Chat"
    /\ messages' = <<>>
    /\ UNCHANGED <<impl, auto, peer, registry, task, obs>>

\* register(function): the registry gains the function's name
Register(fn) ==
    /\ fn \notin registry
    /\ registry' = registry \cup {fn}
    /\ UNCHANGED <<impl, auto, peer, messages, task, obs>>

-----------------------------------------------------------------------------
(* The cell magic *)

Words == {"", "q"}

Cells == {None, "q", " q ", " "}

\* str.strip() on a cell
Strip(s) == CHOOSE w \in Words : \E i, j \in 0..Len(s) : s = Spaces(i) \o w \o Spaces(j)

\* Chat.ipython_magic_submit(line, cell): the coroutine is put on the loop and
\* the magic returns without awaiting it
MagicSubmit(t, cell) ==
    IF cell = None THEN UNCHANGED vars
    ELSE ChatSubmit(t, <<Str(Strip(cell))>>)

-----------------------------------------------------------------------------
(* Specifications *)

InitialContexts == {<<>>, <<system("s")>>}

Quiet == \A t \in Tasks : task[t].pc = "idle"

\* the caller is done with the outcome of its last submit
Forget(t) ==
    /\ task[t].pc \in {"returned", "raised"}
    /\ task' = [task EXCEPT ![t] = IdleTask]
    /\ obs' = [obs EXCEPT ![t] = NoObs]
    /\ UNCHANGED <<impl, auto, peer, messages, registry>>

InitObject ==
    /\ messages \in {Chat_append(<<>>, ic) : ic \in InitialContexts}
    /\ registry = {}
    /\ task = [t \in Tasks |-> IdleTask]
    /\ obs = [t \in Tasks |-> NoObs]
    /\ peer = Chat_init(<<>>, None)

ChatSteps(t) ==
    \/ ChatRateLimited(t)
    \/ ChatRetry(t)
    \/ ChatCreateFails(t)
    \/ ChatCreateReturns(t)
    \/ \E c \in Chunks : ChatChunk(t, c)
    \/ ChatStreamEnds(t)

\* one conversation turn at a time: the caller awaits submit; the turns are
\* those of a chat that holds a context (turns from an empty history are in
\* SpecStream and SpecPeers)
Init ==
    /\ impl = "Chat"
    /\ auto = TRUE
    /\ InitObject

Next ==
    \/ Quiet /\ messages # <<>> /\ \E items \in Inputs : ChatSubmit(1, items)
    \/ ChatSteps(1)
    \/ Forget(1)
    \/ Quiet /\ \E items \in Inputs : AppendOp(items)
    \/ Quiet /\ ClearHistory
    \/ Quiet /\ \E fn \in Registrable : Register(fn)

Spec == Init /\ [][Next]_vars

\* the stream reducers of the three classes side by side: one object of any of
\* the classes, one call of submit / chat at a time
AutoArgs == {None, "True", "False"}

StreamInit ==
    /\ impl \in {"Chat", "Conversation", "Session"}
    /\ auto \in (IF impl = "Chat" THEN {TRUE} ELSE BOOLEAN)
    /\ messages = <<>>
    /\ registry \in (IF impl = "Session" THEN {{"f"}} ELSE {{}})
    /\ task = [t \in Tasks |-> IdleTask]
    /\ obs = [t \in Tasks |-> NoObs]
    /\ peer = Chat_init(<<>>, None)

StreamNext ==
    \/ Quiet /\ ChatSubmit(1, <<Str("q")>>)
    \/ ChatSteps(1)
    \/ Quiet /\ MurkrowSubmit(1, <<Str("q")>>, None)
    \/ MurkrowCreateFails(1)
    \/ MurkrowCreateReturns(1)
    \/ \E c \in Chunks : ConvChunk(1, c)
    \/ ConvStreamEnds(1)
    \/ \E c \in Chunks : SessionChunk(1, c)
    \/ SessionStreamEnds(1)
    \/ Forget(1)

SpecStream == StreamInit /\ [][StreamNext]_vars

\* submits scheduled through the cell magic run as tasks of the one loop
MagicChunks ==
    {[choices |-> 1, delta |-> [content |-> "a", function_call |-> NoCall],
      finish_reason |-> None],
     [choices |-> 1, delta |-> NoDelta, finish_reason |-> "stop"],
     [choices |-> 1, delta |-> [content |-> None,
                                function_call |-> [name |-> "f", arguments |-> "{}"]],
      finish_reason |-> "function_call"]}

MagicNext ==
    \/ \E t \in Tasks, cell \in Cells : task[t].pc = "idle" /\ MagicSubmit(t, cell)
    \/ \E t \in Tasks : ChatCreateReturns(t)
    \/ \E t \in Tasks, c \in MagicChunks : ChatChunk(t, c)
    \/ \E t \in Tasks : ChatStreamEnds(t)

SpecMagic == Init /\ [][MagicNext]_vars

\* append and a later submit / chat, for an object of any of the three classes
AppendInputs == {<<system("s")>>, <<Str("q")>>}

AppendInit ==
    /\ impl \in {"Chat", "Conversation", "Session"}
    /\ auto = TRUE
    /\ messages = <<>>
    /\ registry = {"f"}
    /\ task = [t \in Tasks |-> IdleTask]
    /\ obs = [t \in Tasks |-> NoObs]
    /\ peer = Chat_init(<<>>, None)

AppendNext ==
    \/ Quiet /\ \E items \in AppendInputs : AppendOp(items)
    \/ Quiet /\ ChatSubmit(1, <<Str("q")>>)
    \/ Quiet /\ MurkrowSubmit(1, <<Str("q")>>, None)
    \/ ChatCreateReturns(1)
    \/ MurkrowCreateReturns(1)
    \/ \E c \in MagicChunks : ChatChunk(1, c)
    \/ \E c \in MagicChunks : ConvChunk(1, c)
    \/ \E c \in MagicChunks : SessionChunk(1, c)
    \/ ChatStreamEnds(1)
    \/ ConvStreamEnds(1)
    \/ SessionStreamEnds(1)
    \/ Forget(1)

SpecAppend == AppendInit /\ [][AppendNext]_vars

\* two Chat objects of one program: the first is used in full, the second is
\* built with or without the first's registry and is appended to, cleared and
\* registered with at any time
PeerSteps ==
    \/ \E items \in AppendInputs : PeerAppend(items)
    \/ PeerClearHistory
    \/ \E fn \in Registrable : PeerRegister(fn)

PeersInit ==
    /\ impl = "Chat"
    /\ auto = TRUE
    /\ messages = Chat_append(<<>>, <<system("s")>>)
    /\ registry = {}
    /\ task = [t \in Tasks |-> IdleTask]
    /\ obs = [t \in Tasks |-> NoObs]
    /\ peer \in {Chat_init(ic, fr) : ic \in InitialContexts, fr \in {None, "first"}}

PeersNext ==
    \/ Quiet /\ \E items \in AppendInputs : AppendOp(items)
    \/ Quiet /\ ClearHistory
    \/ Quiet /\ \E fn \in Registrable : Register(fn)
    \/ Quiet /\ ChatSubmit(1, <<Str("q")>>)
    \/ ChatRateLimited(1)
    \/ ChatRetry(1)
    \/ ChatCreateFails(1)
    \/ ChatCreateReturns(1)
    \/ \E c \in MagicChunks : ChatChunk(1, c)
    \/ ChatStreamEnds(1)
    \/ Forget(1)
    \/ PeerSteps

SpecPeers == PeersInit /\ [][PeersNext]_vars

\* Conversation.submit and Session.chat called with and without an explicit
\* auto_continue, on objects built with either setting
AutoInit ==
    /\ impl \in {"Conversation", "Session"}
    /\ auto \in BOOLEAN
    /\ messages = <<>>
    /\ registry = {"f"}
    /\ task = [t \in Tasks |-> IdleTask]
    /\ obs = [t \in Tasks |-> NoObs]
    /\ peer = Chat_init(<<>>, None)

AutoNext ==
    \/ Quiet /\ \E ac \in AutoArgs : MurkrowSubmit(1, <<Str("q")>>, ac)
    \/ MurkrowCreateFails(1)
    \/ MurkrowCreateReturns(1)
    \/ \E c \in MagicChunks : ConvChunk(1, c)
    \/ ConvStreamEnds(1)
    \/ \E c \in MagicChunks : SessionChunk(1, c)
    \/ SessionStreamEnds(1)
    \/ Forget(1)

SpecAuto == AutoInit /\ [][AutoNext]_vars

\* one submit of a Chat followed to its end: every await of the submit is
\* eventually over (the model answers or fails, the sleep ends, the stream
\* yields a chunk or ends); the environment gives at most MaxCalls - 1
\* rate-limit errors and function-call answers and at most MaxChunks chunks
LiveChunks ==
    MagicChunks
    \cup {[choices |-> 1, delta |-> NoDelta, finish_reason |-> "length"],
          [choices |-> 1, delta |-> [content |-> None,
                                     function_call |-> [name |-> None, arguments |-> "{"]],
           finish_reason |-> "stop"]}

LiveSteps(t) ==
    \/ ChatRateLimited(t)
    \/ ChatRetry(t)
    \/ ChatCreateFails(t)
    \/ ChatCreateReturns(t)
    \/ \E c \in LiveChunks : ChatChunk(t, c)
    \/ ChatStreamEnds(t)

LiveNext ==
    \/ Quiet /\ \E items \in AppendInputs : ChatSubmit(1, items)
    \/ LiveSteps(1)
    \/ Forget(1)

SpecLive == Init /\ [][LiveNext]_vars /\ WF_vars(LiveSteps(1))

\* the message constructors called by the user, each result appended to a
\* Chat: chat.append(assistant("a")), chat.append(assistant_function_call("f")), ...
ToolCallIds == {"t"}

MessageCalls ==
    {[fn |-> f, args |-> <<c>>] :
        f \in {"assistant", "user", "system", "narrate", "human", "ai"},
        c \in ContentDeltas}
    \cup {[fn |-> "assistant_function_call", args |-> <<n, a>>] :
             n \in Names, a \in ArgDeltas \cup {"", None}}
    \cup {[fn |-> "function_result", args |-> <<n, c>>] : n \in Names, c \in ContentDeltas}
    \cup {[fn |-> "tool_result", args |-> <<i, c>>] : i \in ToolCallIds, c \in ContentDeltas}

\* the call of a constructor by its name in chatlab.messaging
Construct(call) ==
    LET a == call.args
    IN CASE call.fn = "assistant" -> assistant(a[1])
         [] call.fn = "user" -> user(a[1])
         [] call.fn = "system" -> system(a[1])
         [] call.fn = "narrate" -> narrate(a[1])
         [] call.fn = "human" -> human(a[1])
         [] call.fn = "ai" -> ai(a[1])
         [] call.fn = "assistant_function_call" -> assistant_function_call(a[1], a[2])
         [] call.fn = "function_result" -> function_result(a[1], a[2])
         [] call.fn = "tool_result" -> tool_result(a[1], a[2])

\* chat.append(<constructor>(...)): the calls made are noted in the log
AppendConstructed(call) ==
    /\ impl = "Chat"
    /\ Quiet
    /\ Len(messages) < MaxBuilt
    /\ messages' = Chat_append(messages, <<Construct(call)>>)
    /\ obs' = [obs EXCEPT ![1].log = @ \o <<call>>]
    /\ UNCHANGED <<impl, auto, peer, registry, task>>

MsgInit ==
    /\ impl = "Chat"
    /\ auto = TRUE
    /\ messages = <<>>
    /\ registry = {}
    /\ task = [t \in Tasks |-> IdleTask]
    /\ obs = [t \in Tasks |-> NoObs]
    /\ peer = Chat_init(<<>>, None)

MsgNext == \E call \in MessageCalls : AppendConstructed(call)

SpecMsg == MsgInit /\ [][MsgNext]_vars

-----------------------------------------------------------------------------
(* Claims *)

\* the last place of event e in a log, 0 when it is not there
LastIndex(log, e) ==
    IF \E i \in 1..Len(log) : log[i] = e
    THEN CHOOSE i \in 1..Len(log) : log[i] = e /\ \A j \in (i + 1)..Len(log) : log[j] # e
    ELSE 0

\* the messages a submit was given, as they are stored
Stored(items) == Chat_append(<<>>, items)

\* C1: every step other than clear_history leaves the history it found as an
\* unchanged prefix of the history it leaves.
C1_AppendOnly == [][ClearHistory \/ IsPrefix(messages, messages')]_vars

C1_Witness ==
    \E t \in Tasks :
        /\ task[t].pc = "returned"
        /\ obs[t].base # <<>>
        /\ obs[t].rounds > 0
        /\ Len(messages) > Len(obs[t].base) + Len(obs[t].given) + 2

\* C2: a stream that finishes with 'function_call' after naming a function
\* leaves, before submit returns, the function-call message and directly after
\* it the function's result at the end of the history, recorded in the order
\* call message, execution, result, and then a new model request that carries
\* the whole history and no new message (that request may then be retried or
\* fail).
C2_FunctionCallRound ==
    \A t \in Tasks :
        (obs[t].finish = "function_call" /\ obs[t].name # None) =>
            LET log == obs[t].log
                i == LastIndex(log, "fc")
                n == Len(messages)
            IN /\ \/ task[t].pc \in {"create", "sleep"}
                  \/ task[t].pc = "raised" /\ task[t].error = "APIError"
               /\ task[t].messages = <<>>
               /\ i > 0 /\ i + 3 <= Len(log)
               /\ SubSeq(log, i, i + 3) = <<"fc", "exec", "result", "call">>
               /\ \A j \in (i + 4)..Len(log) : log[j] \in {"rate_limit", "call", "raise"}
               /\ n >= 2
               /\ messages[n - 1] = obs[t].call[1]
               /\ messages[n].role = "function"
               /\ messages[n].name = obs[t].call[1].function_call.name
               /\ obs[t].sent = messages
               /\ task[t].full_messages = messages

C2_Witness ==
    \E t \in Tasks :
        /\ obs[t].finish = "function_call" /\ obs[t].name # None
        /\ task[t].pc = "create"
        /\ obs[t].given # <<>>

\* C3: in each of the three reducers, a function_call.arguments delta that
\* arrives before any function_call.name delta of its stream raises ValueError
\* and nothing is accumulated for it.
C3_ArgumentsBeforeName ==
    \A t \in Tasks :
        obs[t].args_first =>
            /\ task[t].pc = "raised"
            /\ task[t].error = "ValueError"
            /\ task[t].function_view = NoView

C3_Witness ==
    \E t \in Tasks :
        /\ impl = "Session"
        /\ obs[t].args_first
        /\ obs[t].streamed = "a"
        /\ obs[t].chunks = 3

\* C4 as stated: the model call for one message list is attempted at most twice.
C4_AtMostTwoAttempts == \A t \in Tasks : obs[t].attempts <= 2

\* C4 as amended: every rate-limit error is followed, after a sleep of
\* RateLimitDelay seconds, by one more attempt with the same messages, without
\* any limit: the attempts made for one message list are one more than the
\* rate-limit errors received for it.
C4_RetryPerRateLimit ==
    \A t \in Tasks :
        task[t].pc # "idle" =>
            /\ obs[t].attempts = obs[t].streak + (IF task[t].pc = "sleep" THEN 0 ELSE 1)
            /\ obs[t].slept = RateLimitDelay * (obs[t].attempts - 1)
            /\ task[t].pc = "sleep" => task[t].error = None

C4_Witness ==
    \E t \in Tasks : obs[t].streak = 2 /\ obs[t].attempts = 3 /\ task[t].pc = "returned"

\* C5 as stated: at any time at most one model call of the conversation is
\* outstanding (awaited, or its stream still being read).
Outstanding == {t \in Tasks : task[t].pc \in {"create", "stream"}}

C5_OneOutstandingCall == Cardinality(Outstanding) <= 1

\* C6: a stream that ends without any finish reason makes submit raise
\* ValueError.
C6_NoFinishRaises ==
    \A t \in Tasks :
        (obs[t].ended /\ obs[t].finish = None) =>
            task[t].pc = "raised" /\ task[t].error = "ValueError"

C6_Witness ==
    \E t \in Tasks : obs[t].ended /\ obs[t].finish = None /\ obs[t].streamed # ""

\* C7: on 'length', 'max_tokens', 'content_filter' and unknown finish reasons
\* submit prints a line and returns normally; after the stream began nothing
\* was executed and no model call was made.
C7_InlineFinishReasons ==
    \A t \in Tasks :
        (obs[t].finish \in FinishReasons \ {"stop", "function_call"}) =>
            LET log == obs[t].log
                i == LastIndex(log, "append")
            IN /\ task[t].pc = "returned"
               /\ task[t].error = None
               /\ obs[t].call = <<>>
               /\ i > 0
               /\ \A j \in (i + 1)..Len(log) : log[j] \in {"text", "return"}
               /\ log[Len(log)] = "return"
               /\ obs[t].printed # None

C7_Witness ==
    \E t \in Tasks :
        /\ obs[t].finish = "weird"
        /\ obs[t].name # None
        /\ task[t].pc = "returned"

\* C8: an assistant text message appended while a stream is read holds exactly
\* the content deltas received since the previous flush, in order, and the
\* accumulator is empty after the flush.
C8_FlushExact ==
    \A t \in Tasks :
        obs[t].flush # <<>> =>
            /\ obs[t].flush[1].got = obs[t].flush[1].want
            /\ obs[t].flush[1].left = ""

C8_Witness ==
    \E t \in Tasks :
        /\ obs[t].flush # <<>>
        /\ obs[t].flush[1].want = "a "
        /\ obs[t].name # None
        /\ task[t].pc = "stream"

\* C9: the function-call message recorded on a 'function_call' finish carries
\* the latest function name received and the argument deltas received since
\* that name, in order; arguments received for an earlier name are dropped.
C9_CallMessageExact ==
    \A t \in Tasks :
        obs[t].call # <<>> =>
            obs[t].call[1] = assistant_function_call(obs[t].name, obs[t].args)

C9_Witness ==
    \E t \in Tasks :
        /\ obs[t].call # <<>>
        /\ obs[t].renamed
        /\ obs[t].args = "}{"

\* C10 as stated: a submit whose one stream carries non-empty content and
\* finishes with 'stop' leaves the history it found, then the messages given,
\* then one assistant message holding all the streamed text.
C10_OneAssistantMessage ==
    \A t \in Tasks :
        (/\ task[t].pc = "returned"
         /\ obs[t].finish = "stop"
         /\ obs[t].rounds = 0
         /\ obs[t].streamed # "") =>
            messages = obs[t].base \o Stored(obs[t].given) \o <<assistant(obs[t].streamed)>>

\* C10 as amended: the same, for a stream in which no function_call.name delta
\* arrives between two non-empty content deltas.
C10_OneAssistantMessageUnsplit ==
    \A t \in Tasks :
        (/\ task[t].pc = "returned"
         /\ obs[t].finish = "stop"
         /\ obs[t].rounds = 0
         /\ obs[t].streamed # ""
         /\ obs[t].split # "split") =>
            messages = obs[t].base \o Stored(obs[t].given) \o <<assistant(obs[t].streamed)>>

C10_Witness ==
    \E t \in Tasks :
        /\ task[t].pc = "returned"
        /\ obs[t].finish = "stop"
        /\ obs[t].rounds = 0
        /\ obs[t].streamed = "a "
        /\ obs[t].split = "cut"
        /\ obs[t].retries > 0
        /\ obs[t].base # <<>>
        /\ Len(obs[t].given) = 2

\* the messages given to append or submit as the history is to hold them:
\* a string as a user-role message, a Message as it is
Expected(items) ==
    [i \in 1..Len(items) |-> IF IsStr(items[i]) THEN user(items[i].str) ELSE items[i]]

IsText(m) == m.role = "assistant" /\ m.content # None

\* the text of the assistant text messages that end a history, put together
RECURSIVE TextTail(_)
TextTail(ms) ==
    IF ms = <<>> THEN ""
    ELSE IF ~IsText(ms[Len(ms)]) THEN ""
    ELSE TextTail(SubSeq(ms, 1, Len(ms) - 1)) \o ms[Len(ms)].content

C13_NoSharedState ==
    [][peer.supplied = None =>
          /\ PeerSteps => (messages' = messages /\ registry' = registry)
          /\ ~PeerSteps => (peer.messages' = peer.messages /\ PeerRegistry' = PeerRegistry)]_vars

C13_Witness ==
    /\ peer.supplied = None
    /\ peer.names = {"f"}
    /\ registry = {}
    /\ peer.messages = <<>>
    /\ Len(messages) > 2
    /\ task[1].pc = "stream"

\* C15: a step of clear_history leaves get_history empty, and a model call
\* made from an empty history sends exactly the messages given to that submit
\* (strings as user-role messages).
C15_ClearHistory ==
    [][/\ ClearHistory => Chat_get_history(messages') = <<>>
       /\ \A t \in Tasks :
            (obs'[t].calls > obs[t].calls /\ Chat_get_history(messages) = <<>>) =>
                obs'[t].sent = Expected(task'[t].messages)]_vars

C15_Witness ==
    \E t \in Tasks :
        /\ task[t].pc = "create"
        /\ obs[t].base = <<>>
        /\ obs[t].retries > 0
        /\ obs[t].sent = <<user("q")>>

\* C14 as stated: in a turn begun with auto_continue = False no model call
\* follows a function call; a turn begun with auto_continue = True does not
\* return with a function call executed and no model call made after it.
C14_ExplicitAutoContinue ==
    \A t \in Tasks :
        impl \in {"Conversation", "Session"} =>
            /\ (obs[t].ac = "False" /\ obs[t].rounds > 0) => obs[t].calls = 1
            /\ (obs[t].ac = "True" /\ obs[t].rounds > 0 /\ task[t].pc = "returned") =>
                   LastIndex(obs[t].log, "call") > LastIndex(obs[t].log, "result")

\* C16: in Chat and Conversation, once a chunk with a finish reason has been
\* received the stream is read no further (so that chunk is the only one with
\* a finish reason, and nothing after it is folded in), and unless that chunk
\* raised, its finish reason is the one acted on.
C16_StopsAtFirstFinish ==
    \A t \in Tasks :
        (impl \in {"Chat", "Conversation"} /\ obs[t].seen # None) =>
            /\ task[t].pc # "stream"
            /\ obs[t].args_first \/ obs[t].finish = obs[t].seen

C16_Witness ==
    \E t \in Tasks :
        /\ impl = "Conversation"
        /\ obs[t].seen = "stop"
        /\ obs[t].chunks = 3
        /\ obs[t].streamed = "a "
        /\ task[t].pc = "returned"

\* C17: when a response ends in a function call, every assistant text message
\* of that response stands in the history before the function-call message:
\* the call message is followed by the function's result only, and the text
\* messages just before it hold all the content the response streamed.
C17_TextBeforeCall ==
    \A t \in Tasks :
        obs[t].call # <<>> =>
            LET n == Len(messages)
            IN /\ n >= 2
               /\ messages[n - 1] = obs[t].call[1]
               /\ ~IsText(messages[n])
               /\ TextTail(SubSeq(messages, 1, n - 2)) = obs[t].streamed

C17_Witness ==
    \E t \in Tasks :
        /\ obs[t].call # <<>>
        /\ obs[t].split = "split"
        /\ obs[t].streamed = "a "

\* C18: a chunk that gives the finish reason 'function_call' when no function
\* name has been received in the stream makes submit / chat raise ValueError;
\* since the model call of that stream nothing but text was appended, nothing
\* was executed and no model call was made.
C18_UnnamedFunctionCall ==
    \A t \in Tasks :
        (obs[t].seen = "function_call" /\ obs[t].name = None) =>
            LET log == obs[t].log
                i == LastIndex(log, "call")
            IN /\ task[t].pc = "raised"
               /\ task[t].error = "ValueError"
               /\ obs[t].call = <<>>
               /\ i > 0
               /\ \A j \in (i + 1)..Len(log) : log[j] \in {"append", "text", "raise"}
               /\ \A k \in (Len(obs[t].sent) + 1)..Len(messages) : IsText(messages[k])

C18_Witness ==
    \E t \in Tasks :
        /\ impl = "Session"
        /\ obs[t].seen = "function_call" /\ obs[t].name = None
        /\ obs[t].streamed = "a "
        /\ ~obs[t].args_first

\* C19: when the model call fails with an error other than a rate-limit
\* error, submit raises it and the history is what it was when the call was
\* made: the history followed by the messages given is still the list that was
\* sent, and in the first round of a submit the history is the one it found.
C19_FailedCallLeavesHistory ==
    \A t \in Tasks :
        (task[t].pc = "raised" /\ task[t].error = "APIError") =>
            /\ messages \o Expected(task[t].messages) = obs[t].sent
            /\ obs[t].rounds = 0 => messages = obs[t].base

C19_Witness ==
    \E t \in Tasks :
        /\ task[t].pc = "raised" /\ task[t].error = "APIError"
        /\ obs[t].rounds = 0
        /\ obs[t].retries > 0
        /\ obs[t].base # <<>>

\* C20: after a rate-limit error the request made next carries the same list
\* as the one refused; once a retry has been answered with a stream the
\* history begins with that list (in the first round: the history found, then
\* each message given, once) and holds after it only assistant and function
\* messages.
C20_RetryNoDuplicates ==
    \A t \in Tasks :
        obs[t].streak > 0 =>
            /\ task[t].pc # "sleep" => obs[t].sent = obs[t].refused
            /\ LastIndex(obs[t].log, "append") > LastIndex(obs[t].log, "rate_limit") =>
                   /\ IsPrefix(obs[t].sent, messages)
                   /\ \A k \in (Len(obs[t].sent) + 1)..Len(messages) :
                          messages[k].role \in {"assistant", "function"}
                   /\ obs[t].rounds = 0 =>
                          obs[t].sent = obs[t].base \o Expected(obs[t].given)

C20_Witness ==
    \E t \in Tasks :
        /\ obs[t].streak = 2
        /\ task[t].pc = "returned"
        /\ Len(obs[t].given) = 2
        /\ obs[t].base # <<>>
        /\ obs[t].streamed # ""

\* C21 as stated: whenever a model call of Chat.submit returns and the
\* messages given are appended, the history then equals the list that was sent
\* in that request, also when two submits of one Chat interleave.
C21_SentIsRecorded ==
    [][\A t \in Tasks : ChatCreateReturns(t) => messages' = obs[t].sent]_vars

\* an assistant function-call message, a function-role result message
IsCall(m) == m.role = "assistant" /\ "function_call" \in DOMAIN m

IsResult(m) == m.role = "function"

\* C22: in a Chat or Conversation whose history was filled by submit with
\* user-role inputs, every function-role result message stands directly after
\* an assistant function-call message (that of the same function), and once
\* submit has returned normally every function-call message is directly
\* followed by a function-role result message.
C22_ResultsPaired ==
    impl \in {"Chat", "Conversation"} =>
        /\ \A k \in 1..Len(messages) :
              IsResult(messages[k]) =>
                  /\ k > 1
                  /\ IsCall(messages[k - 1])
                  /\ messages[k - 1].function_call.name = messages[k].name
        /\ (\A t \in Tasks : task[t].pc \in {"idle", "returned"}) =>
              \A k \in 1..Len(messages) :
                  IsCall(messages[k]) =>
                      /\ k < Len(messages)
                      /\ IsResult(messages[k + 1])

C22_Witness ==
    \E t \in Tasks :
        /\ impl = "Chat"
        /\ task[t].pc = "returned"
        /\ obs[t].rounds = 2
        /\ Len(messages) = 5
        /\ IsCall(messages[2]) /\ IsResult(messages[3])
        /\ IsCall(messages[4]) /\ IsResult(messages[5])

\* C23: a submit of Chat that has begun comes to its end, given that each of
\* its awaits is eventually over and the rate-limit errors and function-call
\* answers stop; it returns normally at a finish reason other than
\* 'function_call' (unless that chunk raised for arguments without a name);
\* and the model calls made are one, plus the function-call rounds, plus the
\* rate-limit retries (a retry still asleep has not made its call yet).
C23_SubmitTerminates ==
    /\ [](\A t \in Tasks :
            task[t].pc # "idle" =>
                obs[t].calls = obs[t].rounds + obs[t].retries
                               + (IF task[t].pc = "sleep" THEN 0 ELSE 1))
    /\ [](\A t \in Tasks :
            (obs[t].seen \notin {None, "function_call"} /\ ~obs[t].args_first) =>
                task[t].pc = "returned")
    /\ \A t \in Tasks :
            (task[t].pc \in {"create", "sleep", "stream"})
                ~> (task[t].pc \in {"returned", "raised"})

C23_Witness ==
    \E t \in Tasks :
        /\ task[t].pc = "returned"
        /\ obs[t].rounds = 1
        /\ obs[t].retries = 1
        /\ obs[t].calls = 3
        /\ obs[t].seen = "stop"

\* C24 as stated: Session.chat makes a continuation model call only at the end
\* of a round that appended a function result message to the history, that is,
\* one that stands after the list the round's request sent.
C24_ContinuesOnFreshResult ==
    [][\A t \in Tasks :
          (/\ impl = "Session"
           /\ obs[t].calls > 0
           /\ obs'[t].calls > obs[t].calls) =>
              \E k \in (Len(obs[t].sent) + 1)..Len(messages) : IsResult(messages[k])]_vars

\* C25: each message built by a constructor is the record of its own role:
\* assistant, user, system give role 'assistant', 'user', 'system' with the
\* content given; function_result and tool_result give role 'function' and
\* 'tool' with the content given and the name / tool_call_id; narrate, human
\* and ai give what system, user and assistant give; assistant_function_call
\* gives role 'assistant', content None, the name given, and as arguments the
\* string given, the empty string when none is given.
C25_Constructors ==
    /\ Len(obs[1].log) = Len(messages)
    /\ \A k \in 1..Len(messages) :
            LET m == messages[k]
                fn == obs[1].log[k].fn
                a == obs[1].log[k].args
            IN /\ fn \in {"assistant", "ai"} => m = [role |-> "assistant", content |-> a[1]]
               /\ fn \in {"user", "human"} => m = [role |-> "user", content |-> a[1]]
               /\ fn \in {"system", "narrate"} => m = [role |-> "system", content |-> a[1]]
               /\ fn = "function_result" =>
                      m = [role |-> "function", content |-> a[2], name |-> a[1]]
               /\ fn = "tool_result" =>
                      m = [role |-> "tool", content |-> a[2], tool_call_id |-> a[1]]
               /\ fn = "assistant_function_call" =>
                      /\ DOMAIN m = {"role", "content", "function_call"}
                      /\ m.role = "assistant"
                      /\ m.content = None
                      /\ m.function_call =
                             [name |-> a[1], arguments |-> IF a[2] = None THEN "" ELSE a[2]]

C25_Witness ==
    /\ Len(messages) = 2
    /\ Len(obs[1].log) = 2
    /\ obs[1].log[1] = [fn |-> "assistant_function_call", args |-> <<"f", None>>]
    /\ obs[1].log[2] = [fn |-> "tool_result", args |-> <<"t", "a">>]

====
